---------------------------- MODULE Spec2Model ----------------------------
(***************************************************************************)
(* Agent assignment dashboard (AgentAssignmentDashboard, a React component *)
(* over a Firestore collection with a localStorage fallback).              *)
(*                                                                         *)
(* Text is a sequence of one-character strings, so that trimming, case     *)
(* folding, substring search and splitting are computed as the code        *)
(* computes them.                                                          *)
(*                                                                         *)
(* React state versus closures: a handler reads the values captured by the *)
(* render that created it (the variable view); a state setter changes the  *)
(* component state (the variable st).  An update made in a discrete event  *)
(* (click, key, blur, change) is rendered before the next event, so such a *)
(* handler also updates view for the values it sets.  An update made       *)
(* outside one (timer, code after an await, subscription callback, effect) *)
(* is rendered later, by Render, and another event can be dispatched in    *)
(* between.  A functional updater is run once, on the current state.       *)
(* Passive effects of a commit (useEffect) run in a later step, RunEffects.*)
(***************************************************************************)
EXTENDS Naturals, Sequences, FiniteSets, TLC

(***************************************************************************)
(* Bounds of the model.                                                    *)
(***************************************************************************)
MaxClients == 2     \* records in any one list (in memory, local, remote)
MaxPending == 2     \* remote calls in flight
MaxClock == 2       \* readings of the millisecond clock
MaxDocs == 2        \* document ids the remote store hands out
MaxTimers == 1      \* scheduled auto-saves not yet fired
MaxEvents == 4      \* user and environment events in one behaviour

(***************************************************************************)
(* Text.                                                                   *)
(***************************************************************************)
AlphaU == <<"A","B","C","D","E","F","G","H","I","J","K","L","M",
            "N","O","P","Q","R","S","T","U","V","W","X","Y","Z">>
AlphaL == <<"a","b","c","d","e","f","g","h","i","j","k","l","m",
            "n","o","p","q","r","s","t","u","v","w","x","y","z">>
Digits == {"0","1","2","3","4","5","6","7","8","9"}

\* String.prototype.toLowerCase / toUpperCase, one character
LowerC(c) ==
  IF \E i \in 1..26 : AlphaU[i] = c
    THEN AlphaL[CHOOSE i \in 1..26 : AlphaU[i] = c]
    ELSE c
UpperC(c) ==
  IF \E i \in 1..26 : AlphaL[i] = c
    THEN AlphaU[CHOOSE i \in 1..26 : AlphaL[i] = c]
    ELSE c
toLowerCase(s) == [i \in 1..Len(s) |-> LowerC(s[i])]

IsSpace(c) == c \in {" ", "\n", "\t"}

\* String.prototype.trim
TrimLeft(s) ==
  IF \A i \in 1..Len(s) : IsSpace(s[i])
    THEN << >>
    ELSE SubSeq(s, CHOOSE i \in 1..Len(s) :
                      /\ ~IsSpace(s[i])
                      /\ \A j \in 1..(i-1) : IsSpace(s[j]),
                Len(s))
TrimRight(s) ==
  IF \A i \in 1..Len(s) : IsSpace(s[i])
    THEN << >>
    ELSE SubSeq(s, 1, CHOOSE i \in 1..Len(s) :
                         /\ ~IsSpace(s[i])
                         /\ \A j \in (i+1)..Len(s) : IsSpace(s[j]))
trim(s) == TrimRight(TrimLeft(s))

\* first index at which sub occurs in s, 0 when it does not (indexOf + 1)
IndexOf(s, sub) ==
  LET hits == {i \in 1..(Len(s) + 1) :
                 /\ i + Len(sub) - 1 <= Len(s)
                 /\ SubSeq(s, i, i + Len(sub) - 1) = sub}
  IN IF hits = {} THEN 0 ELSE CHOOSE i \in hits : \A j \in hits : i <= j

\* String.prototype.includes
includes(s, sub) == IndexOf(s, sub) # 0

\* String.prototype.split with a non-empty separator: the sequence of parts
RECURSIVE split(_, _)
split(s, sep) ==
  LET i == IndexOf(s, sep)
  IN IF i = 0
       THEN <<s>>
       ELSE <<SubSeq(s, 1, i - 1)>> \o split(SubSeq(s, i + Len(sep), Len(s)), sep)

\* Array.prototype.join
RECURSIVE join(_, _)
join(parts, sep) ==
  IF Len(parts) = 0 THEN << >>
  ELSE IF Len(parts) = 1 THEN parts[1]
  ELSE parts[1] \o sep \o join(Tail(parts), sep)

(***************************************************************************)
(* Text Parser: extractAge, cleanName and the parsing part of              *)
(* processClientInfo.                                                      *)
(***************************************************************************)
Empty == << >>
Unknown == <<"U","n","k","n","o","w","n">>

\* ageText.match(/\d+/): the first (leftmost, longest) run of decimal digits
extractAge(ageText) ==
  LET starts == {i \in 1..Len(ageText) : ageText[i] \in Digits}
  IN IF starts = {}
       THEN ageText
       ELSE LET b == CHOOSE i \in starts : \A j \in starts : i <= j
                e == CHOOSE i \in b..Len(ageText) :
                       /\ \A k \in b..i : ageText[k] \in Digits
                       /\ (i = Len(ageText) \/ ageText[i + 1] \notin Digits)
            IN SubSeq(ageText, b, e)

NameSep == <<" ", "/", " ">>
cleanName(nameText) ==
  IF includes(nameText, NameSep)
    THEN trim(split(nameText, NameSep)[2])
    ELSE trim(nameText)

NoFields == [name |-> Empty, age |-> Empty, location |-> Empty,
             work |-> Empty, application |-> Empty]

\* one pass of the labelled loop (lines 263-278) over the remaining lines
RECURSIVE ParseLabeled(_, _)
ParseLabeled(lines, acc) ==
  IF lines = << >> THEN acc
  ELSE
    LET line == Head(lines)
        parts == split(line, <<":">>)
        key == parts[1]
        value == trim(join(Tail(parts), <<":">>))
        keyLower == toLowerCase(trim(key))
        next ==
          IF ~includes(line, <<":">>) THEN acc
          ELSE IF includes(keyLower, <<"n","a","m","e">>)
            THEN [acc EXCEPT !.name = cleanName(value)]
          ELSE IF includes(keyLower, <<"a","g","e">>)
            THEN [acc EXCEPT !.age = extractAge(value)]
          ELSE IF includes(keyLower, <<"l","o","c">>)
            THEN [acc EXCEPT !.location = value]
          ELSE IF \/ includes(keyLower, <<"w","o","r","k">>)
                  \/ includes(keyLower, <<"o","c","c","u","p","a","t","i","o","n">>)
            THEN [acc EXCEPT !.work = value]
          ELSE IF includes(keyLower, <<"a","p","p">>)
            THEN [acc EXCEPT !.application = value]
          ELSE acc
    IN ParseLabeled(Tail(lines), next)

ParsePositionalFromThree(lines) ==
  IF Len(lines) >= 3
    THEN [name |-> cleanName(trim(lines[1])),
          age |-> extractAge(trim(lines[2])),
          location |-> trim(lines[3]),
          work |-> IF Len(lines) >= 4 THEN trim(lines[4]) ELSE Empty,
          application |-> IF Len(lines) >= 5 THEN trim(lines[5]) ELSE Empty]
    ELSE NoFields
\* the simple format (lines 279-290)
ParsePositional(lines) ==
  IF Len(lines) >= 2
    THEN [name |-> cleanName(trim(lines[1])),
          age |-> extractAge(trim(lines[2])),
          location |-> IF Len(lines) >= 3 THEN trim(lines[3]) ELSE Empty,
          work |-> IF Len(lines) >= 4 THEN trim(lines[4]) ELSE Empty,
          application |-> IF Len(lines) >= 5 THEN trim(lines[5]) ELSE Empty]
    ELSE NoFields

NonBlank(line) == trim(line) # Empty
\* clientText.split("\n").filter((line) => line.trim() !== "")
ParseLines(text) == SelectSeq(split(text, <<"\n">>), NonBlank)

\* the fields processClientInfo extracts from the pasted text (lines 250-290)
ParseFields(text) ==
  LET lines == ParseLines(text)
      hasLabels == \E i \in 1..Len(lines) : includes(lines[i], <<":">>)
  IN IF hasLabels THEN ParseLabeled(lines, NoFields) ELSE ParsePositional(lines)

(***************************************************************************)
(* Data of the dashboard.                                                  *)
(***************************************************************************)
\* useAuth().user: no session, or the e-mail address of the signed-in user
NoUser == <<"null">>
AdminUser == <<"a","d","m","i","n","@","e","x","a","m","p","l","e",".","c","o","m">>
AgentUser == <<"k","e","n","@","x",".","i","o">>
Users == {AdminUser, AgentUser}

\* adminEmails (line 474) and the test of line 475
adminEmails == {AdminUser,
                <<"m","a","n","a","g","e","r","@","e","x","a","m","p","l","e",".","c","o","m">>}
IsAdminEmail(email) ==
  email \in adminEmails \/ includes(email, <<"a","d","m","i","n">>)

\* currentAgent (line 65) and the assignedAgent of a new record (line 310)
currentAgent(u) == IF u # NoUser /\ u # Empty THEN split(u, <<"@">>)[1] ELSE Empty
Capitalized(a) == IF a # Empty THEN <<UpperC(a[1])>> \o Tail(a) ELSE Empty

\* ids: Date.now().toString() in the fallback mode, a store-assigned document
\* id in the remote collection
NoId == <<"null", 0>>
LocalId(t) == <<"t", t>>
DocId(n) == <<"d", n>>

Today == <<"2","0","2","6","-","1","1","-","0","6">>
NoField == "null"
\* the cells of a row that call startEdit (lines 745-891), and "id", which
\* the signature of startEdit admits
InputFields == {"name", "age", "location", "work", "application", "date"}
SelectFields == {"assignedAgent"}
Fields == InputFields \cup SelectFields

\* EditingCell (lines 20-24) and its initial / reset value (lines 50, 411, 417)
IdleCell == [clientId |-> NoId, field |-> NoField, value |-> Empty]

\* the fallback store entry "assignedClients": missing, or the serialised
\* array (JSON.parse throws on any other text)
Absent == [kind |-> "absent", list |-> << >>]
stringify(list) == [kind |-> "json", list |-> list]
ParseOk(item) == item.kind = "json"
parse(item) == item.list

Ids(list) == [i \in 1..Len(list) |-> list[i].id]
IdSet(list) == {list[i].id : i \in 1..Len(list)}
WithoutIdKeep(list, id) == list
\* prev.filter((client) => client.id !== clientId)
WithoutId(list, id) == SelectSeq(list, LAMBDA c : c.id # id)
WithFieldOrNew(list, id, field, value) ==
  IF \E i \in 1..Len(list) : list[i].id = id
    THEN [i \in 1..Len(list) |->
            IF list[i].id = id THEN [list[i] EXCEPT ![field] = value] ELSE list[i]]
    ELSE Append(list, [id |-> id, name |-> value, age |-> value, location |-> value,
                       work |-> value, application |-> value,
                       assignedAgent |-> value, date |-> value])
\* prev.map((client) => client.id === id ? {...client, [field]: value} : client)
WithField(list, id, field, value) ==
  [i \in 1..Len(list) |->
     IF list[i].id = id THEN [list[i] EXCEPT ![field] = value] ELSE list[i]]

\* the record built at lines 303-314 from the parsed fields
NewClient(f, u) ==
  [name |-> f.name, age |-> f.age,
   location |-> IF f.location # Empty THEN f.location ELSE Unknown,
   work |-> IF f.work # Empty THEN f.work ELSE Unknown,
   application |-> IF f.application # Empty THEN f.application ELSE Unknown,
   assignedAgent |-> Capitalized(currentAgent(u)),
   date |-> Today]
WithId(rec, id) ==
  [id |-> id, name |-> rec.name, age |-> rec.age, location |-> rec.location,
   work |-> rec.work, application |-> rec.application,
   assignedAgent |-> rec.assignedAgent, date |-> rec.date]

\* the success callback of onSnapshot (lines 186-200), one document
FromDoc(d) ==
  [id |-> d.id, name |-> d.name, age |-> d.age,
   location |-> IF d.location # Empty THEN d.location ELSE Unknown,
   work |-> IF d.work # Empty THEN d.work ELSE Unknown,
   application |-> IF d.application # Empty THEN d.application ELSE Unknown,
   assignedAgent |-> d.assignedAgent,
   date |-> IF d.date # Empty THEN d.date ELSE Today]
FromSnapshot(docs) == [i \in 1..Len(docs) |-> FromDoc(docs[i])]

(***************************************************************************)
(* Inputs the model draws from.                                            *)
(***************************************************************************)
\* pasted blocks: labelled, positional, a single unlabelled line, a labelled
\* block without an age, and white space only
PasteLabeled == <<"N","a","m","e",":"," ","J","o","\n","A","g","e",":"," ","4","1","y","r","s">>
PastePositional == <<"A","l","\n","3","5","\n","L","A">>
PasteOneLine == <<"S","o","l","o">>
PasteNoAge == <<"N","a","m","e",":"," ","J","o">>
PasteBlank == <<" ">>
PasteChoices == {PasteLabeled, PasteOneLine, PasteNoAge}

\* lines of pasted blocks.  LineLanguage has a key that contains "age".
LineName == <<"N","a","m","e",":"," ","J","o">>
LineAge == <<"A","g","e",":"," ","4","1">>
LineLoc == <<"L","o","c",":"," ","N","Y">>
LineLanguage == <<"L","a","n","g","u","a","g","e",":"," ","E","n">>
LineAl == <<"A","l">>
LineUserAl == <<"b","o","b"," ","/"," ","A","l"," ">>
Line35 == <<"3","5">>
Line35yrs == <<" ","3","5","y","r","s">>
LineLA == <<"L","A">>
LineNurse == <<"N","u","r","s","e">>
LineTanTan == <<"T","a","n","T","a","n">>
LineBlank == <<" ">>

\* the block made of the given lines
Block(lines) == join(lines, <<"\n">>)
\* the orders in which the given lines can be pasted
Reordered(lines) ==
  {[i \in 1..Len(lines) |-> lines[f[i]]] : f \in Permutations(1..Len(lines))}

\* labelled blocks, each in every order of its lines
LabeledLineSets == {<<LineName, LineAge, LineLoc>>, <<LineName, LineAge, LineLanguage>>}
LabeledBlocks == {Block(p) : p \in UNION {Reordered(ls) : ls \in LabeledLineSets}}
\* blocks without a colon, of one to five non-empty lines
PositionalLines ==
  {<<LineAl>>,
   <<LineAl, Line35>>,
   <<LineAl, LineBlank, Line35yrs>>,
   <<LineUserAl, Line35, LineLA>>,
   <<LineAl, Line35yrs, LineLA, LineNurse>>,
   <<LineAl, Line35, LineLA, LineNurse, LineTanTan>>}
PositionalBlocks == {Block(ls) : ls \in PositionalLines}
BlockChoices == LabeledBlocks \cup PositionalBlocks

\* the texts the textarea holds, and what lines 249-290 parse from each
TextChoices == PasteChoices \cup BlockChoices \cup {Empty}
Parsed == [t \in TextChoices |-> ParseFields(t)]

\* what the user types into an edited cell, and picks in the agent dropdown
\* (agents, line 17)
EditValues == {Empty, <<"Z","e","d">>}
AgentChoices == {<<"A","n","n","i","e">>}

\* the cells the user clicks
CellChoices == {"id", "name", "assignedAgent"}

\* records present before the dashboard is opened
SeedDoc ==
  [id |-> DocId(0), name |-> <<"A","l">>, age |-> <<"3","5">>, location |-> <<"L","A">>,
   work |-> Unknown, application |-> Unknown,
   assignedAgent |-> <<"K","e","n">>, date |-> Today]
SeedLocal == [SeedDoc EXCEPT !.id = LocalId(0)]
\* a document another session adds
OtherDoc(n) ==
  [id |-> DocId(n), name |-> <<"B","o">>, age |-> <<"2","0">>, location |-> Empty,
   work |-> Unknown, application |-> Unknown,
   assignedAgent |-> <<"K","e","n">>, date |-> Today]

\* the toasts of the component: title and description (the names in the
\* success description are left out)
Toast(title, description) == [title |-> title, description |-> description]
NoToast == Toast("", "")
ToastEnterInfo == Toast("Error", "Please enter client information")
ToastRequired == Toast("Error", "Name and age are required")
ToastAdded == Toast("Success", "Client has been added and assigned")
ToastUpdated == Toast("Updated", "Client updated successfully")
ToastDenied == Toast("Permission Denied", "Only administrators can delete client records")
ToastDeleted == Toast("Client Deleted", "Client has been deleted successfully")
ToastFailed(kind) ==
  Toast("Error", CASE kind = "add" -> "Failed to process client information"
                   [] kind = "update" -> "Failed to update client information"
                   [] kind = "delete" -> "Failed to delete client")

(***************************************************************************)
(* State.                                                                  *)
(***************************************************************************)
VARIABLES
  user,        \* the auth context's user
  st,          \* useState values: clients, editingCell, clientText, isAdmin, loading
  view,        \* the values captured by the last render (the handlers' closures)
  mounted,     \* the component is mounted
  effUser,     \* the user the [user] effects last ran for ("unrun" before the first run)
  subscribed,  \* an onSnapshot listener is installed
  localStore,  \* localStorage item "assignedClients"
  remote,      \* the remote collection clientAssignments, in snapshot order
  pending,     \* remote calls awaited: addDoc, updateDoc, deleteDoc
  timers,      \* saveEdit closures scheduled by setTimeout (line 850)
  now,         \* Date.now()
  nextDoc,     \* the next document id the remote store assigns
  notice,      \* the last toast
  events,      \* user and environment events so far (bounds the behaviour)
  last         \* history: whether the last step was a cancelled edit or a
               \* refused startEdit, the two operations that leave no other trace

vars == <<user, st, view, mounted, effUser, subscribed, localStore, remote,
          pending, timers, now, nextDoc, notice, events, last>>


\* a remote call in flight, with what its continuation closes over
Call(kind, id, rec, field, value) ==
  [kind |-> kind, id |-> id, rec |-> rec, field |-> field, value |-> value]
NoRec == WithId(NewClient(NoFields, NoUser), NoId)

NoOp == "none"

\* an event from outside: the user, the auth context, another session, the store
Event == events < MaxEvents /\ events' = events + 1

\* what a render captures
Capture ==
  [user |-> user, clients |-> st.clients, editingCell |-> st.editingCell,
   clientText |-> st.clientText, isAdmin |-> st.isAdmin, loading |-> st.loading]

EffectsPending == mounted /\ effUser # view.user

\* the state after construction: the first render is committed, its effects
\* have not run yet (useState initial values, lines 41-54)
Init ==
  /\ user \in {NoUser} \cup Users
  /\ st = [clients |-> << >>, editingCell |-> IdleCell, clientText |-> Empty,
           isAdmin |-> FALSE, loading |-> TRUE]
  /\ view = [user |-> user, clients |-> << >>, editingCell |-> IdleCell,
             clientText |-> Empty, isAdmin |-> FALSE, loading |-> TRUE]
  /\ mounted = TRUE
  /\ effUser = <<"unrun">>
  /\ subscribed = FALSE
  /\ localStore \in {Absent, stringify(<<SeedLocal>>)}
  /\ remote = <<SeedDoc>>
  /\ pending = << >>
  /\ timers = << >>
  /\ now = 1
  /\ nextDoc = 1
  /\ notice = NoToast
  /\ events = 0
  /\ last = NoOp

(***************************************************************************)
(* Rendering, effects, the environment.                                    *)
(***************************************************************************)
\* a re-render: the handlers now close over the current state.  The effects
\* of the previous commit are flushed before a new render starts.
Render ==
  /\ last' = NoOp
  /\ UNCHANGED events
  /\ mounted
  /\ ~EffectsPending
  /\ view # Capture
  /\ view' = Capture
  /\ UNCHANGED <<user, st, mounted, effUser, subscribed, localStore, remote,
                 pending, timers, now, nextDoc, notice>>

\* the clients a load of the fallback store leaves in memory (lines 170-177
\* and 207-214): replaced when the item is present and parses
LoadFallback(clients) ==
  IF localStore # Absent /\ ParseOk(localStore) THEN parse(localStore) ELSE clients

keepListening(listening) == listening
\* unsubscribe(), the cleanup of the subscription effect (line 220)
unsubscribe(listening) == FALSE

\* the effects with dependency [user] (lines 164-221 and 470-482), run for the
\* committed render: the cleanup of the previous run first
RunEffects ==
  /\ last' = NoOp
  /\ UNCHANGED events
  /\ EffectsPending
  /\ effUser' = view.user
  /\ IF view.user = NoUser
       THEN /\ st' = [st EXCEPT !.clients = LoadFallback(st.clients),
                                !.loading = FALSE,
                                !.isAdmin = FALSE]
            /\ subscribed' = unsubscribe(subscribed)
       ELSE /\ st' = [st EXCEPT !.loading = TRUE,
                                !.isAdmin = IsAdminEmail(view.user)]
            /\ subscribed' = TRUE
  /\ UNCHANGED <<user, view, mounted, localStore, remote, pending, timers,
                 now, nextDoc, notice>>

\* the view is discarded: the cleanup of line 220 runs
Unmount ==
  /\ last' = NoOp
  /\ Event
  /\ mounted
  /\ mounted' = FALSE
  /\ subscribed' = unsubscribe(subscribed)
  /\ UNCHANGED <<user, st, view, effUser, localStore, remote, pending, timers,
                 now, nextDoc, notice>>

\* sign-in or sign-out (the auth context, outside the component)
AuthChange(u) ==
  /\ last' = NoOp
  /\ Event
  /\ mounted
  /\ u # user
  /\ u = NoUser \/ user = NoUser
  /\ user' = u
  /\ UNCHANGED <<st, view, mounted, effUser, subscribed, localStore, remote,
                 pending, timers, now, nextDoc, notice>>

Tick ==
  /\ last' = NoOp
  /\ UNCHANGED events
  /\ now < MaxClock
  /\ now' = now + 1
  /\ UNCHANGED <<user, st, view, mounted, effUser, subscribed, localStore,
                 remote, pending, timers, nextDoc, notice>>

\* another session adds or deletes a document of the remote collection
OtherSessionAdd ==
  /\ last' = NoOp
  /\ Event
  /\ Len(remote) < MaxClients
  /\ nextDoc <= MaxDocs
  /\ remote' = Append(remote, OtherDoc(nextDoc))
  /\ nextDoc' = nextDoc + 1
  /\ UNCHANGED <<user, st, view, mounted, effUser, subscribed, localStore,
                 pending, timers, now, notice>>

OtherSessionDelete(id) ==
  /\ last' = NoOp
  /\ Event
  /\ id \in IdSet(remote)
  /\ remote' = WithoutId(remote, id)
  /\ UNCHANGED <<user, st, view, mounted, effUser, subscribed, localStore,
                 pending, timers, now, nextDoc, notice>>

\* the live subscription delivers the collection (lines 186-203)
Push ==
  /\ last' = NoOp
  /\ UNCHANGED events
  /\ subscribed
  /\ st' = IF mounted
             THEN [st EXCEPT !.clients = FromSnapshot(remote), !.loading = FALSE]
             ELSE st
  /\ UNCHANGED <<user, view, mounted, effUser, subscribed, localStore, remote,
                 pending, timers, now, nextDoc, notice>>

\* the live subscription reports an error (lines 204-216); the listener
\* delivers nothing after it
SnapshotError ==
  /\ last' = NoOp
  /\ Event
  /\ subscribed
  /\ st' = IF mounted
             THEN [st EXCEPT !.clients = LoadFallback(st.clients), !.loading = FALSE]
             ELSE st
  /\ subscribed' = FALSE
  /\ UNCHANGED <<user, view, mounted, effUser, localStore, remote, pending,
                 timers, now, nextDoc, notice>>

(***************************************************************************)
(* Creating a record: the textarea and processClientInfo (lines 239-344).  *)
(***************************************************************************)
\* onChange of the textarea (line 568)
TypeClientText(t) ==
  /\ last' = NoOp
  /\ Event
  /\ mounted
  /\ st.clientText # t
  /\ st' = [st EXCEPT !.clientText = t]
  /\ view' = [view EXCEPT !.clientText = t]
  /\ UNCHANGED <<user, mounted, effUser, subscribed, localStore, remote,
                 pending, timers, now, nextDoc, notice>>

RejectedNameOnly(text) ==
  \/ trim(text) = Empty
  \/ Parsed[text].name = Empty
\* the required-field test of line 293, after the blank test of line 240
Rejected(text) ==
  \/ trim(text) = Empty
  \/ Parsed[text].name = Empty
  \/ Parsed[text].age = Empty

\* the button Process Information (line 574)
processClientInfo ==
  /\ Event
  /\ last' = NoOp
  /\ mounted
  /\ LET text == view.clientText
         rec == NewClient(Parsed[text], view.user)
         clientWithId == WithId(rec, LocalId(now))
     IN
     IF Rejected(text)
       THEN \* lines 240-247 and 293-300
            /\ notice' = IF trim(text) = Empty THEN ToastEnterInfo ELSE ToastRequired
            /\ UNCHANGED <<st, view, localStore, pending>>
       ELSE IF view.user = NoUser
       THEN \* lines 316-323, then 330-335
            /\ Len(st.clients) < MaxClients
            /\ Len(view.clients) < MaxClients
            /\ st' = [st EXCEPT !.clients = Append(st.clients, clientWithId),
                                !.clientText = Empty]
            /\ view' = [view EXCEPT !.clients = Append(view.clients, clientWithId),
                                    !.clientText = Empty]
            /\ localStore' = stringify(Append(view.clients, clientWithId))
            /\ notice' = ToastAdded
            /\ UNCHANGED pending
       ELSE \* line 326: addDoc is awaited
            /\ Len(pending) < MaxPending
            /\ pending' = Append(pending, Call("add", NoId, WithId(rec, NoId),
                                                NoField, Empty))
            /\ UNCHANGED <<st, view, localStore, notice>>
  /\ UNCHANGED <<user, mounted, effUser, subscribed, remote, timers, now, nextDoc>>

(***************************************************************************)
(* Inline Edit Controller (lines 355-419 and the cells, lines 729-896).    *)
(***************************************************************************)
\* the rows of the table: the records of the last render, once loaded
\* (the filters are at their sentinel values)
Rows == IF view.loading THEN << >> ELSE view.clients

\* the cell that shows an editor in the last render, if any (e.g. line 729)
EditorShown ==
  /\ mounted
  /\ view.editingCell.clientId \in IdSet(Rows)
  /\ view.editingCell.field \in Fields

EditableAny(field) == TRUE
\* the test of line 357
Editable(field) == field # "id"

\* startEdit(client, field)
startEdit(i, field) ==
  /\ Event
  /\ last' = IF field = "id" THEN "startEditId" ELSE NoOp
  /\ mounted
  /\ i \in 1..Len(Rows)
  /\ LET cell == IF ~Editable(field)
                   THEN st.editingCell
                   ELSE [clientId |-> Rows[i].id, field |-> field,
                         value |-> Rows[i][field]]
         shown == IF ~Editable(field) THEN view.editingCell ELSE cell
     IN /\ st' = [st EXCEPT !.editingCell = cell]
        /\ view' = [view EXCEPT !.editingCell = shown]
  /\ UNCHANGED <<user, mounted, effUser, subscribed, localStore, remote,
                 pending, timers, now, nextDoc, notice>>

\* onChange of the cell's Input (e.g. line 734): the captured cell with a new value
ChangeEdit(v) ==
  /\ last' = NoOp
  /\ Event
  /\ EditorShown
  /\ view.editingCell.field \in InputFields
  /\ st' = [st EXCEPT !.editingCell = [view.editingCell EXCEPT !.value = v]]
  /\ view' = [view EXCEPT !.editingCell = [view.editingCell EXCEPT !.value = v]]
  /\ UNCHANGED <<user, mounted, effUser, subscribed, localStore, remote,
                 pending, timers, now, nextDoc, notice>>

KeepCell(cell) == cell
\* the reset at the end of saveEdit (lines 410-411)
ResetCell(cell) == IdleCell

\* saveEdit as closed over the editing cell and the user of one render; sync
\* tells whether it runs in a discrete event.  setState on an unmounted
\* component is dropped.
saveEdit(cell, u, sync) ==
  IF cell.clientId = NoId \/ cell.field = NoField
    THEN \* line 373
         /\ UNCHANGED <<st, view, localStore, pending, notice>>
    ELSE IF u = NoUser
    THEN \* lines 376-387, 397-400, 411
         /\ IF mounted
              THEN /\ st' = [st EXCEPT
                               !.clients = WithField(st.clients, cell.clientId,
                                                     cell.field, cell.value),
                               !.editingCell = ResetCell(st.editingCell)]
                   /\ localStore' = stringify(st'.clients)
              ELSE UNCHANGED <<st, localStore>>
         /\ view' = IF sync
                      THEN [view EXCEPT
                              !.clients = WithField(view.clients, cell.clientId,
                                                    cell.field, cell.value),
                              !.editingCell = ResetCell(view.editingCell)]
                      ELSE view
         /\ notice' = ToastUpdated
         /\ UNCHANGED pending
    ELSE \* lines 390-394: updateDoc is awaited
         /\ Len(pending) < MaxPending
         /\ pending' = Append(pending, Call("update", cell.clientId, NoRec,
                                            cell.field, cell.value))
         /\ UNCHANGED <<st, view, localStore, notice>>

\* blur or Enter in the cell's Input (e.g. lines 735-737)
CommitEdit ==
  /\ Event
  /\ last' = NoOp
  /\ EditorShown
  /\ view.editingCell.field \in InputFields
  /\ saveEdit(view.editingCell, view.user, TRUE)
  /\ UNCHANGED <<user, mounted, effUser, subscribed, remote, timers, now, nextDoc>>

cancelEditCommits ==
  /\ Event
  /\ last' = "cancelEdit"
  /\ EditorShown
  /\ view.editingCell.field \in InputFields
  /\ saveEdit(view.editingCell, view.user, TRUE)
  /\ UNCHANGED <<user, mounted, effUser, subscribed, remote, timers, now, nextDoc>>
\* Escape in the cell's Input: cancelEdit (lines 416-419)
cancelEdit ==
  /\ last' = "cancelEdit"
  /\ Event
  /\ EditorShown
  /\ view.editingCell.field \in InputFields
  /\ st' = [st EXCEPT !.editingCell = IdleCell]
  /\ view' = [view EXCEPT !.editingCell = IdleCell]
  /\ UNCHANGED <<user, mounted, effUser, subscribed, localStore, remote,
                 pending, timers, now, nextDoc, notice>>

\* onValueChange of the agent dropdown (lines 847-851): the value is set and
\* the saveEdit of this render is scheduled
SelectAgent(a) ==
  /\ last' = NoOp
  /\ Event
  /\ EditorShown
  /\ view.editingCell.field \in SelectFields
  /\ Len(timers) < MaxTimers
  /\ st' = [st EXCEPT !.editingCell = [view.editingCell EXCEPT !.value = a]]
  /\ view' = [view EXCEPT !.editingCell = [view.editingCell EXCEPT !.value = a]]
  /\ timers' = Append(timers, [cell |-> view.editingCell, user |-> view.user])
  /\ UNCHANGED <<user, mounted, effUser, subscribed, localStore, remote,
                 pending, now, nextDoc, notice>>

\* the timer of line 850 fires
TimerFire ==
  /\ UNCHANGED events
  /\ last' = NoOp
  /\ timers # << >>
  /\ saveEdit(Head(timers).cell, Head(timers).user, FALSE)
  /\ timers' = Tail(timers)
  /\ UNCHANGED <<user, mounted, effUser, subscribed, remote, now, nextDoc>>

(***************************************************************************)
(* Deleting a record: handleDeleteClient (lines 433-467).  The button is   *)
(* rendered for administrators only (line 897); the handler repeats the    *)
(* test, and the request is modelled for every caller.                     *)
(***************************************************************************)
MayDeleteAnyone(isAdmin) == TRUE
\* the test of line 435
MayDelete(isAdmin) == isAdmin

handleDeleteClient(clientId) ==
  /\ last' = NoOp
  /\ Event
  /\ mounted
  /\ clientId \in IdSet(Rows)
  /\ IF ~MayDelete(view.isAdmin)
       THEN \* lines 435-442
            /\ notice' = ToastDenied
            /\ UNCHANGED <<st, view, localStore, pending>>
       ELSE IF view.user = NoUser
       THEN \* lines 447-448, 455-458
            /\ st' = [st EXCEPT !.clients = WithoutId(st.clients, clientId)]
            /\ view' = [view EXCEPT !.clients = WithoutId(view.clients, clientId)]
            /\ localStore' = stringify(WithoutId(view.clients, clientId))
            /\ notice' = ToastDeleted
            /\ UNCHANGED pending
       ELSE \* lines 451-452: deleteDoc is awaited
            /\ Len(pending) < MaxPending
            /\ pending' = Append(pending, Call("delete", clientId, NoRec, NoField, Empty))
            /\ UNCHANGED <<st, view, localStore, notice>>
  /\ UNCHANGED <<user, mounted, effUser, subscribed, remote, timers, now, nextDoc>>

(***************************************************************************)
(* Completion of the awaited remote calls.                                 *)
(***************************************************************************)
RemoveAt(seq, i) == SubSeq(seq, 1, i - 1) \o SubSeq(seq, i + 1, Len(seq))

Requeued(calls, i) == Append(RemoveAt(calls, i), calls[i])
\* the calls still awaited once call i has thrown: the catch blocks issue none
Settled(calls, i) == RemoveAt(calls, i)

\* the call succeeds: the store applies it, then the code after the await runs
RemoteOk(i) ==
  /\ UNCHANGED events
  /\ last' = NoOp
  /\ i \in 1..Len(pending)
  /\ LET c == pending[i] IN
     /\ \/ /\ c.kind = "add"           \* lines 326-335
           /\ Len(remote) < MaxClients
           /\ nextDoc <= MaxDocs
           /\ remote' = Append(remote, WithId(c.rec, DocId(nextDoc)))
           /\ nextDoc' = nextDoc + 1
           /\ st' = IF mounted THEN [st EXCEPT !.clientText = Empty] ELSE st
           /\ notice' = ToastAdded
        \/ /\ c.kind = "update"        \* lines 391-400, 411; the document must exist
           /\ c.id \in IdSet(remote)
           /\ remote' = WithField(remote, c.id, c.field, c.value)
           /\ st' = IF mounted
                      THEN [st EXCEPT !.editingCell = ResetCell(st.editingCell)]
                      ELSE st
           /\ notice' = ToastUpdated
           /\ UNCHANGED nextDoc
        \/ /\ c.kind = "delete"        \* lines 452-458
           /\ remote' = WithoutId(remote, c.id)
           /\ notice' = ToastDeleted
           /\ UNCHANGED <<st, nextDoc>>
  /\ pending' = RemoveAt(pending, i)
  /\ UNCHANGED <<user, view, mounted, effUser, subscribed, localStore, timers, now>>

\* the call throws: the catch blocks (lines 336-343, 401-408, 459-466), and
\* for saveEdit the reset of line 411
RemoteFail(i) ==
  /\ UNCHANGED events
  /\ last' = NoOp
  /\ i \in 1..Len(pending)
  /\ LET c == pending[i] IN
     /\ st' = IF mounted /\ c.kind = "update"
                THEN [st EXCEPT !.editingCell = ResetCell(st.editingCell)]
                ELSE st
  /\ notice' = ToastFailed(pending[i].kind)
  /\ pending' = Settled(pending, i)
  /\ UNCHANGED <<user, view, mounted, effUser, subscribed, localStore, remote,
                 timers, now, nextDoc>>

(***************************************************************************)
(* The dashboard.                                                          *)
(***************************************************************************)
Next ==
  \/ Render
  \/ RunEffects
  \/ Unmount
  \/ \E u \in {NoUser} \cup Users : AuthChange(u)
  \/ Tick
  \/ OtherSessionAdd
  \/ \E id \in IdSet(remote) : OtherSessionDelete(id)
  \/ Push
  \/ SnapshotError
  \/ \E t \in PasteChoices : TypeClientText(t)
  \/ processClientInfo
  \/ \E i \in 1..MaxClients, f \in CellChoices : startEdit(i, f)
  \/ \E v \in EditValues : ChangeEdit(v)
  \/ CommitEdit
  \/ cancelEdit
  \/ \E a \in AgentChoices : SelectAgent(a)
  \/ TimerFire
  \/ \E id \in IdSet(Rows) : handleDeleteClient(id)
  \/ \E i \in 1..MaxPending : RemoteOk(i)
  \/ \E i \in 1..MaxPending : RemoteFail(i)

Spec == Init /\ [][Next]_vars

(***************************************************************************)
(* The Text Parser at work: blocks of every shape are pasted and           *)
(* processed.                                                              *)
(***************************************************************************)
ParseNext ==
  \/ RunEffects
  \/ Render
  \/ \E t \in BlockChoices : TypeClientText(t)
  \/ processClientInfo

ParseSpec == Init /\ [][ParseNext]_vars

(***************************************************************************)
(* Filter Engine: the effect of lines 85-152 and the filter controls.      *)
(* Here st also holds searchQuery, the four filters and filteredClients,   *)
(* and now is the local calendar of new Date(): year, month (getMonth, 0   *)
(* for January) and whether local time is behind UTC.                      *)
(***************************************************************************)
AllLocations == <<"a","l","l","-","l","o","c","a","t","i","o","n","s">>
AllApplications == <<"a","l","l","-","a","p","p","l","i","c","a","t","i","o","n","s">>
AllAgents == <<"a","l","l","-","a","g","e","n","t","s">>
AllMonths == "all-months"

DigitSeq == <<"0","1","2","3","4","5","6","7","8","9">>
DigitVal(c) == (CHOOSE n \in 1..10 : DigitSeq[n] = c) - 1
\* a date-only ISO text yyyy-mm-dd (no input has a day past its month's end)
IsIsoDate(t) ==
  /\ Len(t) = 10
  /\ t[5] = "-" /\ t[8] = "-"
  /\ \A i \in {1, 2, 3, 4, 6, 7, 9, 10} : t[i] \in Digits
  /\ 10 * DigitVal(t[6]) + DigitVal(t[7]) \in 1..12
  /\ 10 * DigitVal(t[9]) + DigitVal(t[10]) \in 1..31
IsoYear(t) ==
  1000 * DigitVal(t[1]) + 100 * DigitVal(t[2]) + 10 * DigitVal(t[3]) + DigitVal(t[4])
IsoMonth(t) == 10 * DigitVal(t[6]) + DigitVal(t[7])
IsoDay(t) == 10 * DigitVal(t[9]) + DigitVal(t[10])

\* new Date(text) read back with getMonth() and getFullYear(): a date-only
\* text is midnight UTC, which behind UTC is the evening of the day before;
\* any other text here is an Invalid Date (NaN, equal to nothing)
InvalidDate == [valid |-> FALSE, year |-> 0, month |-> 0]
LocalDate(text, west) ==
  IF ~IsIsoDate(text) THEN InvalidDate
  ELSE IF west /\ IsoDay(text) = 1
    THEN IF IsoMonth(text) = 1
           THEN [valid |-> TRUE, year |-> IsoYear(text) - 1, month |-> 11]
           ELSE [valid |-> TRUE, year |-> IsoYear(text), month |-> IsoMonth(text) - 2]
    ELSE [valid |-> TRUE, year |-> IsoYear(text), month |-> IsoMonth(text) - 1]

\* monthMap (lines 130-143)
MonthNames == <<"jan","feb","mar","apr","may","jun","jul","aug","sep","oct","nov","dec">>
InMonthMap(key) == \E i \in 1..12 : MonthNames[i] = key
monthMap(key) == (CHOOSE i \in 1..12 : MonthNames[i] = key) - 1

\* the predicate of the search filter (lines 92-97), query in lower case
MatchesSearch(client, query) ==
  \/ includes(toLowerCase(client.name), query)
  \/ includes(toLowerCase(client.location), query)
  \/ includes(toLowerCase(client.work), query)
  \/ includes(toLowerCase(client.application), query)
  \/ includes(toLowerCase(client.assignedAgent), query)
MatchesLocation(client, f) == toLowerCase(client.location) = f
MatchesApplication(client, f) == toLowerCase(client.application) = f
MatchesAgent(client, f) == toLowerCase(client.assignedAgent) = f
\* the predicate of the month filter (lines 116-146)
MatchesMonth(client, f, today) ==
  LET clientDate == LocalDate(client.date, today.west)
  IN IF f = "current"
       THEN /\ clientDate.valid
            /\ clientDate.month = today.month
            /\ clientDate.year = today.year
     ELSE IF f = "previous"
       THEN LET prevMonth == IF today.month = 0 THEN 11 ELSE today.month - 1
                prevMonthYear == IF today.month = 0 THEN today.year - 1 ELSE today.year
            IN /\ clientDate.valid
               /\ clientDate.month = prevMonth
               /\ clientDate.year = prevMonthYear
     ELSE /\ clientDate.valid
          /\ InMonthMap(f)
          /\ clientDate.month = monthMap(f)

CopyButFirst(list) == IF list = << >> THEN list ELSE Tail(list)
\* let result = [...clients] (line 86)
Copy(list) == list

ActiveAlways(filter, sentinel) == TRUE
\* the tests filter !== "all-..." (lines 102, 106, 110, 115)
Active(filter, sentinel) == filter # sentinel

Original(result, clients) == clients
\* what a step filters: result = result.filter(...), the previous result
Narrowed(result, clients) == result

\* the body of the effect: each active filter narrows the previous result
ApplyFilters(clients, f, today) ==
  LET query == toLowerCase(f.searchQuery)
      r0 == Copy(clients)
      r1 == IF f.searchQuery # Empty
              THEN SelectSeq(Narrowed(r0, clients), LAMBDA c : MatchesSearch(c, query))
              ELSE r0
      r2 == IF Active(f.locationFilter, AllLocations)
              THEN SelectSeq(Narrowed(r1, clients),
                             LAMBDA c : MatchesLocation(c, f.locationFilter))
              ELSE r1
      r3 == IF Active(f.applicationFilter, AllApplications)
              THEN SelectSeq(Narrowed(r2, clients),
                             LAMBDA c : MatchesApplication(c, f.applicationFilter))
              ELSE r2
      r4 == IF Active(f.agentFilter, AllAgents)
              THEN SelectSeq(Narrowed(r3, clients),
                             LAMBDA c : MatchesAgent(c, f.agentFilter))
              ELSE r3
  IN IF Active(f.monthFilter, AllMonths)
       THEN SelectSeq(Narrowed(r4, clients),
                      LAMBDA c : MatchesMonth(c, f.monthFilter, today))
       ELSE r4

\* records to filter: two locations, two applications, two agents, dates on
\* the first day of a month and inside one, and a date that is no date
FilterPool == {
  [id |-> DocId(1), name |-> <<"A","l">>, age |-> Line35, location |-> <<"L","A">>,
   work |-> Unknown, application |-> <<"T","a","n","T","a","n">>,
   assignedAgent |-> <<"K","e","n">>,
   date |-> <<"2","0","2","5","-","1","2","-","0","1">>],
  [id |-> DocId(2), name |-> <<"B","o">>, age |-> Line35, location |-> <<"N","Y">>,
   work |-> Unknown, application |-> <<"U","n","k","n","o","w","n">>,
   assignedAgent |-> <<"A","n","n","i","e">>,
   date |-> <<"2","0","2","6","-","0","1","-","0","1">>],
  [id |-> DocId(3), name |-> <<"C","y">>, age |-> Line35, location |-> <<"L","A">>,
   work |-> Unknown, application |-> <<"T","a","n","T","a","n">>,
   assignedAgent |-> <<"A","n","n","i","e">>,
   date |-> <<"2","0","2","5","-","1","2","-","1","5">>],
  [id |-> DocId(4), name |-> <<"D","i">>, age |-> Line35, location |-> <<"N","Y">>,
   work |-> Unknown, application |-> <<"U","n","k","n","o","w","n">>,
   assignedAgent |-> <<"K","e","n">>,
   date |-> <<"s","o","o","n">>]}
\* the lists of at most MaxClients different records of the pool
FilterLists ==
  {l \in UNION {[1..n -> FilterPool] : n \in 0..MaxClients} :
     \A i, j \in 1..Len(l) : i # j => l[i] # l[j]}
\* new Date(): mid-January 2026 and mid-November 2026, ahead of or behind UTC
FilterNows == [year : {2026}, month : {0, 10}, west : BOOLEAN]
SearchChoices == {Empty, <<"L">>, <<"a","n">>}
LocationChoices == {AllLocations, <<"l","a">>}
ApplicationChoices == {AllApplications, <<"t","a","n","t","a","n">>}
AgentFilterChoices == {AllAgents, <<"a","n","n","i","e">>}
MonthChoices == {AllMonths, "current", "previous", "dec"}

\* the filter set of the current state
FilterSet(s) ==
  [searchQuery |-> s.searchQuery, locationFilter |-> s.locationFilter,
   applicationFilter |-> s.applicationFilter, agentFilter |-> s.agentFilter,
   monthFilter |-> s.monthFilter]
\* the values of resetFilters (lines 345-351) and of useState (lines 41-47)
SentinelSet ==
  [searchQuery |-> Empty, locationFilter |-> AllLocations,
   applicationFilter |-> AllApplications, agentFilter |-> AllAgents,
   monthFilter |-> AllMonths]

FilterInit ==
  /\ user = NoUser
  /\ \E l \in FilterLists :
       /\ st = [clients |-> l, editingCell |-> IdleCell, clientText |-> Empty,
                isAdmin |-> FALSE, loading |-> FALSE,
                searchQuery |-> Empty, locationFilter |-> AllLocations,
                applicationFilter |-> AllApplications, agentFilter |-> AllAgents,
                monthFilter |-> AllMonths, filteredClients |-> << >>]
       /\ view = [user |-> NoUser, clients |-> l, editingCell |-> IdleCell,
                  clientText |-> Empty, isAdmin |-> FALSE, loading |-> FALSE]
  /\ mounted = TRUE
  /\ effUser = NoUser
  /\ subscribed = FALSE
  /\ localStore = Absent
  /\ remote = << >>
  /\ pending = << >>
  /\ timers = << >>
  /\ now \in FilterNows
  /\ nextDoc = 1
  /\ notice = NoToast
  /\ events = 0
  /\ last = NoOp

\* what the filter controls leave alone
FilterFrame ==
  UNCHANGED <<user, view, mounted, effUser, subscribed, localStore, remote,
              pending, timers, now, nextDoc, notice, events, last>>

\* onChange of the search box (line 597)
SetSearchQuery(q) ==
  /\ st.searchQuery # q
  /\ st' = [st EXCEPT !.searchQuery = q]
  /\ FilterFrame
\* onValueChange of the four filter dropdowns (lines 496, 605, 622, 639)
SetLocationFilter(v) ==
  /\ st.locationFilter # v
  /\ st' = [st EXCEPT !.locationFilter = v]
  /\ FilterFrame
SetApplicationFilter(v) ==
  /\ st.applicationFilter # v
  /\ st' = [st EXCEPT !.applicationFilter = v]
  /\ FilterFrame
SetAgentFilter(v) ==
  /\ st.agentFilter # v
  /\ st' = [st EXCEPT !.agentFilter = v]
  /\ FilterFrame
SetMonthFilter(v) ==
  /\ st.monthFilter # v
  /\ st' = [st EXCEPT !.monthFilter = v]
  /\ FilterFrame
\* the Reset button (line 673)
resetFilters ==
  /\ FilterSet(st) # SentinelSet
  /\ st' = [st EXCEPT !.searchQuery = Empty, !.locationFilter = AllLocations,
                      !.applicationFilter = AllApplications,
                      !.agentFilter = AllAgents, !.monthFilter = AllMonths]
  /\ FilterFrame
\* the effect of lines 85-152
FilterEffect ==
  /\ st' = [st EXCEPT !.filteredClients = ApplyFilters(st.clients, FilterSet(st), now)]
  /\ FilterFrame

FilterNext ==
  \/ \E q \in SearchChoices : SetSearchQuery(q)
  \/ \E v \in LocationChoices : SetLocationFilter(v)
  \/ \E v \in ApplicationChoices : SetApplicationFilter(v)
  \/ \E v \in AgentFilterChoices : SetAgentFilter(v)
  \/ \E v \in MonthChoices : SetMonthFilter(v)
  \/ resetFilters
  \/ FilterEffect

FilterSpec == FilterInit /\ [][FilterNext]_vars

\* the Filter Engine as a function of its filter values: the categorical
\* filters take values in either letter case
CaseLocationChoices == {AllLocations, <<"l","a">>, <<"L","A">>}
CaseApplicationChoices == {AllApplications, <<"t","a","n","t","a","n">>, <<"T","a","n","T","a","n">>}
CaseAgentChoices == {AllAgents, <<"a","n","n","i","e">>, <<"A","n","n","i","e">>}

CategoricalNext ==
  \/ \E v \in CaseLocationChoices : SetLocationFilter(v)
  \/ \E v \in CaseApplicationChoices : SetApplicationFilter(v)
  \/ \E v \in CaseAgentChoices : SetAgentFilter(v)
  \/ resetFilters
  \/ FilterEffect

CategoricalSpec == FilterInit /\ [][CategoricalNext]_vars

(***************************************************************************)
(* REST endpoints GET /clients and POST /clients (app/api/clients/route.ts).*)
(* Here user is auth.currentUser, remote the documents of collection       *)
(* "clients" (id and data), pending the requests whose handler awaits the  *)
(* store, notice the HTTP responses sent so far, events the requests       *)
(* received.                                                               *)
(***************************************************************************)
MaxRequests == 3    \* requests received in one behaviour

JsNull == <<"null">>
Undefined == <<"undefined">>
\* client.f for a parsed body
Get(body, f) == IF f \in DOMAIN body THEN body[f] ELSE Undefined
\* a value that || and ?: take as true
Truthy(v) == v \notin {Undefined, JsNull, Empty}
\* { ...base, ...over }: a later property replaces an earlier one
Spread(base, over) ==
  [f \in DOMAIN base \cup DOMAIN over |-> IF f \in DOMAIN over THEN over[f] ELSE base[f]]

InProcess == <<"I","n"," ","P","r","o","c","e","s","s">>
\* the document POST hands to addDoc (lines 39-48)
ClientDoc(client) ==
  [shopId |-> Get(client, "shopId"),
   clientName |-> Get(client, "clientName"),
   agent |-> Get(client, "agent"),
   kycDate |-> IF Truthy(Get(client, "kycDate")) THEN Get(client, "kycDate") ELSE JsNull,
   status |-> IF Truthy(Get(client, "status")) THEN Get(client, "status") ELSE InProcess,
   notes |-> IF Truthy(Get(client, "notes")) THEN Get(client, "notes") ELSE Empty]

Response(status, body) == [status |-> status, body |-> body]
Unauthorized == Response(401, [error |-> "Unauthorized"])
FailedToFetch == Response(500, [error |-> "Failed to fetch clients"])
FailedToAdd == Response(500, [error |-> "Failed to add client"])

\* request bodies: the plain fields, with status and notes, with an empty
\* status, with an id of its own; and a body that is no JSON
BodyPlain == [shopId |-> <<"S","1">>, clientName |-> LineAl, agent |-> <<"K","e","n">>]
BodyFull ==
  [shopId |-> <<"S","2">>, clientName |-> <<"B","o">>, agent |-> <<"K","e","n">>,
   status |-> <<"D","o","n","e">>, notes |-> <<"h","i">>]
BodyEmptyStatus ==
  [shopId |-> <<"S","3">>, clientName |-> <<"C","y">>, agent |-> <<"K","e","n">>,
   status |-> Empty]
BodyWithId ==
  [id |-> <<"m","i","n","e">>, shopId |-> <<"S","4">>, clientName |-> <<"D","i">>,
   agent |-> <<"K","e","n">>]
NotJson == [invalid |-> TRUE]
Bodies == {BodyPlain, BodyFull, BodyEmptyStatus, BodyWithId}

RestInit ==
  /\ user \in {NoUser, AgentUser}
  /\ st = [clients |-> << >>, editingCell |-> IdleCell, clientText |-> Empty,
           isAdmin |-> FALSE, loading |-> TRUE]
  /\ view = [user |-> user, clients |-> << >>, editingCell |-> IdleCell,
             clientText |-> Empty, isAdmin |-> FALSE, loading |-> TRUE]
  /\ mounted = TRUE
  /\ effUser = <<"unrun">>
  /\ subscribed = FALSE
  /\ localStore = Absent
  /\ remote = << >>
  /\ pending = << >>
  /\ timers = << >>
  /\ now = 1
  /\ nextDoc = 1
  /\ notice = << >>
  /\ events = 0
  /\ last = NoOp

RestFrame ==
  UNCHANGED <<user, st, view, mounted, effUser, subscribed, localStore, timers, now, last>>

AuthorizedAnyone(u) == TRUE
\* the test of lines 8-9 and 30-31
Authorized(u) == u # NoUser

\* a session starts or ends between two requests
RestSession(u) ==
  /\ u # user
  /\ user' = u
  /\ UNCHANGED <<st, view, mounted, effUser, subscribed, localStore, remote,
                 pending, timers, now, nextDoc, notice, events, last>>

\* GET (lines 5-25) up to the awaited getDocs
GET ==
  /\ events < MaxRequests
  /\ events' = events + 1
  /\ IF ~Authorized(user)
       THEN notice' = Append(notice, Unauthorized) /\ UNCHANGED pending
       ELSE /\ Len(pending) < MaxPending
            /\ pending' = Append(pending, [kind |-> "getDocs"])
            /\ UNCHANGED notice
  /\ UNCHANGED <<remote, nextDoc>>
  /\ RestFrame

\* POST (lines 27-58) up to the awaited addDoc; request.json() throws on a
\* body that is no JSON
POST(body) ==
  /\ events < MaxRequests
  /\ events' = events + 1
  /\ IF ~Authorized(user)
       THEN notice' = Append(notice, Unauthorized) /\ UNCHANGED pending
       ELSE IF body = NotJson
       THEN notice' = Append(notice, FailedToAdd) /\ UNCHANGED pending
       ELSE /\ Len(pending) < MaxPending
            /\ pending' = Append(pending, [kind |-> "addDoc", client |-> body,
                                           data |-> ClientDoc(body)])
            /\ UNCHANGED notice
  /\ UNCHANGED <<remote, nextDoc>>
  /\ RestFrame

\* the awaited store call returns: lines 15-20 answer the array of the
\* documents (the field array of the body), or the document is written and
\* lines 50-53 answer
StoreReturns(i) ==
  /\ i \in 1..Len(pending)
  /\ LET c == pending[i] IN
       \/ /\ c.kind = "getDocs"
          /\ notice' = Append(notice, Response(200, [array |-> [k \in 1..Len(remote) |->
                                 Spread([id |-> remote[k].id], remote[k].data)]]))
          /\ UNCHANGED <<remote, nextDoc>>
       \/ /\ c.kind = "addDoc"
          /\ Len(remote) < MaxClients
          /\ nextDoc <= MaxDocs
          /\ remote' = Append(remote, [id |-> DocId(nextDoc), data |-> c.data])
          /\ nextDoc' = nextDoc + 1
          /\ notice' = Append(notice, Response(200, Spread([id |-> DocId(nextDoc)], c.client)))
  /\ pending' = RemoveAt(pending, i)
  /\ UNCHANGED events
  /\ RestFrame

\* the awaited store call throws: the catch blocks (lines 21-24, 54-57)
StoreThrows(i) ==
  /\ i \in 1..Len(pending)
  /\ notice' = Append(notice, IF pending[i].kind = "getDocs" THEN FailedToFetch
                                ELSE FailedToAdd)
  /\ pending' = RemoveAt(pending, i)
  /\ UNCHANGED <<remote, nextDoc, events>>
  /\ RestFrame

RestNext ==
  \/ \E u \in {NoUser, AgentUser} : RestSession(u)
  \/ GET
  \/ \E body \in Bodies \cup {NotJson} : POST(body)
  \/ \E i \in 1..MaxPending : StoreReturns(i)
  \/ \E i \in 1..MaxPending : StoreThrows(i)

RestSpec == RestInit /\ [][RestNext]_vars

(***************************************************************************)
(* Migration utility (scripts/migrate-data.ts).  Here localStore maps the  *)
(* five localStorage keys to their items, remote maps the five collections *)
(* to their documents, view holds the local variables of the running       *)
(* migrateData (the parsed lists and the position in the loops), notice    *)
(* the outcome of each finished run, events the runs started.              *)
(***************************************************************************)
MaxRuns == 2     \* runs of the script
MaxItems == 1    \* elements of one localStorage list

\* the keys in the order of the five loops (lines 13, 27, 43, 58, 73)
Keys == <<"clients", "orders", "deposits", "withdrawals", "orderRequests">>
KeySet == {Keys[c] : c \in 1..Len(Keys)}

\* element j of the list under key c; the first client has no notes, the
\* other elements have notes and remarks
SourceRecord(c, j) ==
  IF c = 1 /\ j = 1 THEN [shopId |-> <<"S", c, j>>]
  ELSE [shopId |-> <<"S", c, j>>, notes |-> <<"h","i">>, remarks |-> <<"h","i">>]
SourceList(c, n) == [j \in 1..n |-> SourceRecord(c, j)]
SourceItems(c) == {Absent} \cup {stringify(SourceList(c, n)) : n \in 0..MaxItems}
SourceStores ==
  {f \in [KeySet -> UNION {SourceItems(c) : c \in 1..Len(Keys)}] :
     \A c \in 1..Len(Keys) : f[Keys[c]] \in SourceItems(c)}

\* JSON.parse(localStorage.getItem(key) || "[]") (lines 6-10)
getList(store, key) == IF ParseOk(store[key]) THEN parse(store[key]) ELSE << >>

\* the document a loop hands to addDoc
MigratedDoc(key, rec) ==
  IF key = "clients"
    THEN [shopId |-> Get(rec, "shopId"),
          notes |-> IF Truthy(Get(rec, "notes")) THEN Get(rec, "notes") ELSE Empty]
  ELSE IF key = "orderRequests"
    THEN [shopId |-> Get(rec, "shopId"),
          remarks |-> IF Truthy(Get(rec, "remarks")) THEN Get(rec, "remarks") ELSE Empty]
  ELSE [shopId |-> Get(rec, "shopId")]

RECURSIVE AdvanceSkippingOrders(_, _, _)
AdvanceSkippingOrders(lists, loop, k) ==
  IF loop > Len(Keys) THEN [loop |-> Len(Keys) + 1, k |-> 1]
  ELSE IF loop # 2 /\ k <= Len(lists[Keys[loop]]) THEN [loop |-> loop, k |-> k]
  ELSE AdvanceSkippingOrders(lists, loop + 1, 1)
\* the next iteration at or after iteration k of loop number loop: a loop
\* whose list is exhausted falls through to the loop after it
RECURSIVE Advance(_, _, _)
Advance(lists, loop, k) ==
  IF loop > Len(Keys) THEN [loop |-> Len(Keys) + 1, k |-> 1]
  ELSE IF k <= Len(lists[Keys[loop]]) THEN [loop |-> loop, k |-> k]
  ELSE Advance(lists, loop + 1, 1)

Finished(pos) == pos.loop > Len(Keys)
Completed == [kind |-> "completed", loop |-> Len(Keys) + 1, k |-> 1]
\* the rejection of the promise of migrateData by the addDoc of iteration k
\* of loop number loop
RejectedAt(loop, k) == [kind |-> "rejected", loop |-> loop, k |-> k]
NotRunning == [active |-> FALSE, lists |-> [key \in KeySet |-> << >>], loop |-> 1, k |-> 1]

MigrateInit ==
  /\ user = NoUser
  /\ st = [clients |-> << >>, editingCell |-> IdleCell, clientText |-> Empty,
           isAdmin |-> FALSE, loading |-> TRUE]
  /\ view = NotRunning
  /\ mounted = FALSE
  /\ effUser = <<"unrun">>
  /\ subscribed = FALSE
  /\ localStore \in SourceStores
  /\ remote = [key \in KeySet |-> << >>]
  /\ pending = << >>
  /\ timers = << >>
  /\ now = 1
  /\ nextDoc = 1
  /\ notice = << >>
  /\ events = 0
  /\ last = NoOp

MigrateFrame ==
  UNCHANGED <<user, st, mounted, effUser, subscribed, localStore, pending, timers, now, last>>

\* migrateData runs up to its next await, or to its end
RunFrom(lists, pos) ==
  IF Finished(pos)
    THEN view' = NotRunning /\ notice' = Append(notice, Completed)
    ELSE /\ view' = [active |-> TRUE, lists |-> lists, loop |-> pos.loop, k |-> pos.k]
         /\ UNCHANGED notice

\* the script is run (line 92): lines 6-10, then up to the first addDoc
migrateData ==
  /\ ~view.active
  /\ events < MaxRuns
  /\ events' = events + 1
  /\ LET lists == [key \in KeySet |-> getList(localStore, key)] IN
       RunFrom(lists, Advance(lists, 1, 1))
  /\ UNCHANGED <<remote, nextDoc>>
  /\ MigrateFrame

\* the awaited addDoc returns: the document is in its collection and the
\* loops go on to the next addDoc, or to console.log (line 88)
AddDocReturns ==
  /\ view.active
  /\ LET key == Keys[view.loop] IN
       remote' = [remote EXCEPT ![key] =
                    Append(@, [id |-> DocId(nextDoc),
                               data |-> MigratedDoc(key, view.lists[key][view.k])])]
  /\ nextDoc' = nextDoc + 1
  /\ RunFrom(view.lists, Advance(view.lists, view.loop, view.k + 1))
  /\ UNCHANGED events
  /\ MigrateFrame

\* the awaited addDoc throws: nothing catches it, migrateData rejects
AddDocThrows ==
  /\ view.active
  /\ view' = NotRunning
  /\ notice' = Append(notice, RejectedAt(view.loop, view.k))
  /\ UNCHANGED <<remote, nextDoc, events>>
  /\ MigrateFrame

MigrateNext == migrateData \/ AddDocReturns \/ AddDocThrows

MigrateSpec == MigrateInit /\ [][MigrateNext]_vars

(***************************************************************************)
(* Properties.                                                             *)
(***************************************************************************)
PersistedList == IF ParseOk(localStore) THEN parse(localStore) ELSE << >>
RowIds == IdSet(Rows)

\* the steps that commit an edit in the fallback mode
LocalSaveStep ==
  \/ CommitEdit /\ view.user = NoUser
  \/ TimerFire /\ timers # << >> /\ Head(timers).user = NoUser
\* the steps that end an awaited updateDoc
UpdateDoneStep ==
  \E i \in 1..Len(pending) :
    pending[i].kind = "update" /\ (RemoteOk(i) \/ RemoteFail(i))
\* the steps of the Inline Edit Controller
EditStep ==
  \/ \E i \in 1..Len(Rows), f \in CellChoices : startEdit(i, f)
  \/ \E v \in EditValues : ChangeEdit(v)
  \/ \E a \in AgentChoices : SelectAgent(a)
  \/ CommitEdit
  \/ cancelEdit
  \/ TimerFire
  \/ UpdateDoneStep
\* the steps in which a handler issues a remote call
RemoteRequestStep ==
  \/ processClientInfo /\ ~Rejected(view.clientText) /\ view.user # NoUser
  \/ CommitEdit /\ view.user # NoUser
  \/ TimerFire /\ timers # << >> /\ Head(timers).user # NoUser
  \/ \E id \in RowIds : handleDeleteClient(id) /\ view.isAdmin /\ view.user # NoUser

\* C1: a delete request by a caller who is not an administrator changes
\* neither the in-memory list, nor the local persisted list, nor the remote
\* collection, issues no remote call, and shows the Permission Denied toast.
C1_DeleteDenied ==
  [][\A id \in RowIds :
       (handleDeleteClient(id) /\ ~view.isAdmin)
         => /\ st' = st
            /\ localStore' = localStore
            /\ remote' = remote
            /\ pending' = pending
            /\ notice' = ToastDenied]_vars
C1_Witness == notice = ToastDenied /\ ~view.isAdmin /\ Len(Rows) > 0

\* C2: every record of the remote collection and of the local persisted list
\* has a non-empty name and a non-empty age.
C2_PersistedNameAge ==
  /\ \A i \in 1..Len(remote) : remote[i].name # Empty /\ remote[i].age # Empty
  /\ \A i \in 1..Len(PersistedList) :
       PersistedList[i].name # Empty /\ PersistedList[i].age # Empty

\* C3: when the parsed name or the parsed age is empty, processClientInfo
\* shows an Error toast, creates no record in memory, in the local persisted
\* list or in the remote collection (no call issued), and leaves the pasted
\* text as it is.
C3_RejectedInput ==
  [][(/\ processClientInfo
      /\ \/ Parsed[view.clientText].name = Empty
         \/ Parsed[view.clientText].age = Empty)
       => /\ notice'.title = "Error"
          /\ st' = st
          /\ view' = view
          /\ localStore' = localStore
          /\ remote' = remote
          /\ pending' = pending]_vars
C3_Witness ==
  /\ notice = ToastRequired
  /\ st.clientText \in {PasteOneLine, PasteNoAge}
  /\ st.clients = << >>

\* C4: with no session, after every create, update or delete the local
\* persisted list equals the in-memory list.
C4_LocalMirrorsMemory ==
  [][(/\ user = NoUser
      /\ view.user = NoUser
      /\ \/ processClientInfo /\ ~Rejected(view.clientText)
         \/ LocalSaveStep
         \/ \E id \in RowIds : handleDeleteClient(id) /\ view.isAdmin)
       => /\ ParseOk(localStore')
          /\ parse(localStore') = st'.clients]_vars

\* C5: with no session, a delete request by a caller for whom isAdmin holds
\* removes the record from the in-memory list and from the local persisted
\* list, and neither changes the remote collection nor issues a remote call.
C5_LocalDelete ==
  [][\A id \in RowIds :
       (handleDeleteClient(id) /\ view.isAdmin /\ view.user = NoUser /\ user = NoUser)
         => /\ id \notin IdSet(st'.clients)
            /\ ParseOk(localStore')
            /\ id \notin IdSet(parse(localStore'))
            /\ remote' = remote
            /\ pending' = pending]_vars
C5_Witness ==
  /\ user = NoUser
  /\ notice = ToastDeleted
  /\ localStore = stringify(<< >>)
  /\ st.clients = << >>
  /\ remote = <<SeedDoc>>
  /\ pending = << >>

\* C6: the controller holds one cell at most (idle, or one record id with one
\* editable field), and every finished commit (in the fallback mode, or when
\* the awaited update succeeds or fails) and every cancel leaves it idle.
CellOk(cell) == cell = IdleCell \/ (cell.clientId # NoId /\ cell.field \in Fields)
C6_OneCellThenIdle ==
  /\ [](CellOk(st.editingCell) /\ CellOk(view.editingCell))
  /\ [][(mounted /\ (LocalSaveStep \/ UpdateDoneStep \/ cancelEdit))
          => st'.editingCell = IdleCell]_vars
C6_Witness ==
  /\ notice = ToastFailed("update")
  /\ st.editingCell = IdleCell
  /\ view.editingCell # IdleCell

\* C7: cancelling an edit makes the controller idle and calls no update: the
\* in-memory list, the local persisted list, the remote collection, the calls
\* in flight and the scheduled saves stay as they are.
C7_CancelChangesNothing ==
  [][cancelEdit
       => /\ st'.editingCell = IdleCell
          /\ st'.clients = st.clients
          /\ localStore' = localStore
          /\ remote' = remote
          /\ pending' = pending
          /\ timers' = timers
          /\ notice' = notice]_vars
C7_Witness ==
  /\ last = "cancelEdit"
  /\ st.editingCell = IdleCell
  /\ Len(st.clients) > 0

\* C8: startEdit on the id field leaves the editing cell as it is, and no
\* step of the Inline Edit Controller changes the ids of the in-memory list
\* or of the remote collection; the local persisted list keeps its ids or is
\* rewritten with the ids of the in-memory list.
C8_IdImmutable ==
  /\ [][\A i \in 1..Len(Rows) :
          startEdit(i, "id")
            => st'.editingCell = st.editingCell /\ view'.editingCell = view.editingCell]_vars
  /\ [][EditStep
          => /\ Ids(st'.clients) = Ids(st.clients)
             /\ Ids(PersistedList') \in {Ids(PersistedList), Ids(st.clients)}
             /\ Ids(remote') = Ids(remote)]_vars
C8_Witness ==
  /\ last = "startEditId"
  /\ st.editingCell = IdleCell
  /\ Len(Rows) > 0

\* C9: when a remote call fails, the failure toast of its operation is
\* shown, the in-memory list and the stores stay as they are, and the call is
\* neither re-issued nor queued; a handler issues exactly one call.
C9_FailureNotRetried ==
  /\ [][\A i \in 1..Len(pending) :
          RemoteFail(i)
            => /\ notice' = ToastFailed(pending[i].kind)
               /\ st'.clients = st.clients
               /\ remote' = remote
               /\ localStore' = localStore
               /\ Len(pending') = Len(pending) - 1]_vars
  /\ [][RemoteRequestStep => Len(pending') = Len(pending) + 1]_vars
  /\ [][Len(pending') <= Len(pending) + 1]_vars
C9_Witness ==
  /\ notice = ToastFailed("delete")
  /\ pending = << >>
  /\ SeedDoc.id \in IdSet(remote)
  /\ SeedDoc.id \in IdSet(st.clients)

\* C10: a push happens only while the view is mounted and its effects last
\* ran for a signed-in user (not after the cleanup on unmount or sign-out),
\* and it replaces the in-memory list by one record per document of the
\* remote collection, in order, with the document's id and non-empty fields.
MirrorsRemote(list) ==
  /\ Ids(list) = Ids(remote)
  /\ \A i \in 1..Len(remote) : \A f \in Fields :
       remote[i][f] # Empty => list[i][f] = remote[i][f]
C10_PushReplacesList ==
  [][(Push /\ subscribed)
       => /\ mounted
          /\ effUser \in Users
          /\ MirrorsRemote(st'.clients)]_vars
C10_Witness ==
  /\ mounted
  /\ subscribed
  /\ MirrorsRemote(st.clients)
  /\ \E i \in 1..Len(st.clients) : st.clients[i] = FromDoc(OtherDoc(1))
  /\ st.clients[1].id = SeedDoc.id

\* the record a processClientInfo step hands to the store: appended to the
\* in-memory list in the fallback mode, carried by the addDoc call otherwise
Creates(rec) ==
  IF view.user = NoUser
    THEN st'.clients = Append(st.clients, rec)
    ELSE /\ Len(pending') = Len(pending) + 1
         /\ pending'[Len(pending')].kind = "add"
         /\ pending'[Len(pending')].rec = rec
CreatesNothing ==
  /\ st'.clients = st.clients
  /\ pending' = pending
  /\ localStore' = localStore
ParsedOf(rec) ==
  [name |-> rec.name, age |-> rec.age, location |-> rec.location,
   work |-> rec.work, application |-> rec.application]

\* C15: when a labelled block is processed, every reordering of its lines
\* parses to the same name, age, location, work and application.
C15_LabelOrderIrrelevant ==
  [][(processClientInfo /\ view.clientText \in LabeledBlocks)
       => \A p \in Reordered(ParseLines(view.clientText)) :
            Parsed[Block(p)] = Parsed[view.clientText]]_vars

\* C16: processing a colon-free block of two to four non-empty lines creates
\* a record whose name is line 1 (real-name part, trimmed), whose age is line
\* 2 (its first run of digits), whose location and work are lines 3 and 4
\* when present, and whose absent trailing fields among location, work and
\* application are "Unknown"; a block of fewer than two lines is rejected
\* with the required-fields error and creates nothing.
C16_PositionalBlock ==
  [][(processClientInfo /\ view.clientText \in PositionalBlocks)
       => LET lines == ParseLines(view.clientText)
              n == Len(lines)
          IN /\ n \in 2..4 =>
                  \E rec \in ({st'.clients[i] : i \in 1..Len(st'.clients)}
                              \cup {pending'[i].rec : i \in 1..Len(pending')}) :
                    /\ Creates(rec)
                    /\ rec.name = cleanName(trim(lines[1]))
                    /\ rec.age = extractAge(trim(lines[2]))
                    /\ rec.location = IF n >= 3 THEN trim(lines[3]) ELSE Unknown
                    /\ rec.work = IF n >= 4 THEN trim(lines[4]) ELSE Unknown
                    /\ rec.application = Unknown
             /\ n < 2 => notice' = ToastRequired /\ CreatesNothing]_vars
C16_Witness ==
  /\ notice = ToastAdded
  /\ user = NoUser
  /\ \E i \in 1..Len(st.clients) :
       ParsedOf(st.clients[i]) =
         [name |-> LineAl, age |-> Line35, location |-> LineLA,
          work |-> LineNurse, application |-> Unknown]

\* C20: when the save scheduled by picking an agent in the dropdown runs
\* while the cell still holds the picked agent, the update it makes (on the
\* in-memory list without a session, by updateDoc with one) writes the picked
\* agent as the record's assignedAgent; without a session the cell is then
\* idle.
C20_SelectThenSave ==
  [][(/\ timers # << >>
      /\ mounted
      /\ st.editingCell.field = "assignedAgent"
      /\ st.editingCell.clientId = Head(timers).cell.clientId
      /\ TimerFire)
       => LET picked == st.editingCell.value
              id == st.editingCell.clientId
          IN IF Head(timers).user = NoUser
               THEN /\ \A i \in 1..Len(st'.clients) :
                         st'.clients[i].id = id => st'.clients[i].assignedAgent = picked
                    /\ st'.editingCell = IdleCell
               ELSE /\ Len(pending') = Len(pending) + 1
                    /\ pending'[Len(pending')].kind = "update"
                    /\ pending'[Len(pending')].id = id
                    /\ pending'[Len(pending')].field = "assignedAgent"
                    /\ pending'[Len(pending')].value = picked]_vars

\* out is in with some elements left out: same relative order, nothing added
\* or repeated
IsSubsequence(out, in) ==
  \E f \in [1..Len(out) -> 1..Len(in)] :
    /\ \A i \in 1..Len(out) : out[i] = in[f[i]]
    /\ \A i, j \in 1..Len(out) : i < j => f[i] < f[j]
\* client passes every filter of f that is active
SatisfiesAll(client, f, today) ==
  /\ f.searchQuery # Empty => MatchesSearch(client, toLowerCase(f.searchQuery))
  /\ f.locationFilter # AllLocations => MatchesLocation(client, f.locationFilter)
  /\ f.applicationFilter # AllApplications => MatchesApplication(client, f.applicationFilter)
  /\ f.agentFilter # AllAgents => MatchesAgent(client, f.agentFilter)
  /\ f.monthFilter # AllMonths => MatchesMonth(client, f.monthFilter, today)
\* the date text names the calendar month before today's
DatedMonthBefore(date, today) ==
  /\ IsIsoDate(date)
  /\ IF today.month = 0
       THEN IsoYear(date) = today.year - 1 /\ IsoMonth(date) = 12
       ELSE IsoYear(date) = today.year /\ IsoMonth(date) = today.month

\* C11: with the four filters at their sentinel values and no search text,
\* the Filter Engine returns the record list unchanged, in its order.
C11_SentinelsKeepAll ==
  [][(FilterEffect /\ FilterSet(st) = SentinelSet)
       => st'.filteredClients = st.clients]_vars
C11_Witness ==
  /\ FilterSet(st) = SentinelSet
  /\ Len(st.clients) = 2
  /\ st.filteredClients = st.clients

\* C12: filtering the output of a filter pass again with the same filter set
\* and the same clock gives the same list.
C12_FilterIdempotent ==
  [][FilterEffect
       => ApplyFilters(st'.filteredClients, FilterSet(st), now) = st'.filteredClients]_vars
C12_Witness ==
  /\ FilterSet(st) # SentinelSet
  /\ st.filteredClients = ApplyFilters(st.clients, FilterSet(st), now)
  /\ Len(st.filteredClients) = 1
  /\ Len(st.clients) = 2

\* C13: the output of a filter pass is a subsequence of the record list and
\* holds exactly the records that pass every active filter.
C13_SubsequenceOfMatches ==
  [][FilterEffect
       => /\ IsSubsequence(st'.filteredClients, st.clients)
          /\ \A i \in 1..Len(st.clients) :
               (\E j \in 1..Len(st'.filteredClients) :
                   st'.filteredClients[j] = st.clients[i])
                 <=> SatisfiesAll(st.clients[i], FilterSet(st), now)]_vars
C13_Witness ==
  /\ st.searchQuery # Empty
  /\ st.locationFilter # AllLocations
  /\ st.agentFilter # AllAgents
  /\ Len(st.clients) = 2
  /\ Len(st.filteredClients) = 1
  /\ st.filteredClients = ApplyFilters(st.clients, FilterSet(st), now)

\* C14: with monthFilter "previous" (the other filters at their sentinels),
\* the Filter Engine keeps exactly the records whose date is in the calendar
\* month before today's: December of year Y-1 when today is in January of Y.
C14_PreviousMonth ==
  [][(FilterEffect /\ FilterSet(st) = [SentinelSet EXCEPT !.monthFilter = "previous"])
       => st'.filteredClients =
            SelectSeq(st.clients, LAMBDA c : DatedMonthBefore(c.date, now))]_vars


(***************************************************************************)
(* REST endpoints.                                                         *)
(***************************************************************************)
\* the response the step sends
Sent == notice'[Len(notice')]
NoStoreAccess == remote' = remote /\ pending' = pending

\* C17: GET and POST answer 401 when no session is present, and then neither
\* call the store nor change the collection; when the awaited store call
\* throws they answer 500 with a body of the one field error, a string the
\* handler fixes, and the collection is unchanged.
C17_ErrorResponses ==
  [][/\ ((GET \/ \E body \in Bodies \cup {NotJson} : POST(body)) /\ user = NoUser)
          => (notice' = Append(notice, Unauthorized) /\ NoStoreAccess)
     /\ \A i \in 1..MaxPending :
          StoreThrows(i)
            => /\ Sent.status = 500
               /\ DOMAIN Sent.body = {"error"}
               /\ Sent.body.error \in {"Failed to fetch clients", "Failed to add client"}
               /\ remote' = remote]_vars

\* a 401 was sent over a collection that holds a document, and a store call
\* that threw was answered with 500
C17_Witness ==
  /\ Len(remote) > 0
  /\ \E k \in 1..Len(notice) : notice[k] = Unauthorized
  /\ \E k \in 1..Len(notice) : notice[k] = FailedToFetch

\* C18: when the addDoc of an authenticated POST returns, exactly one
\* document has been written, its status is "In Process" when the body has
\* none and its notes are empty when the body has none, and the id of the
\* response is the id the store gave that document, whatever the body holds.
C18_PostEchoesStoreId ==
  [][\A i \in 1..MaxPending :
       (StoreReturns(i) /\ pending[i].kind = "addDoc")
         => /\ Len(remote') = Len(remote) + 1
            /\ SubSeq(remote', 1, Len(remote)) = remote
            /\ LET new == remote'[Len(remote')]
                   client == pending[i].client IN
                 /\ ~Truthy(Get(client, "status")) => new.data.status = InProcess
                 /\ ~Truthy(Get(client, "notes")) => new.data.notes = Empty
                 /\ Sent.status = 200
                 /\ Sent.body.id = new.id]_vars


(***************************************************************************)
(* Migration utility.                                                      *)
(***************************************************************************)
\* element j of the list under key number c comes before the position pos
\* of a run, in the order of the loops
Passed(pos, c, j) == c < pos.loop \/ (c = pos.loop /\ j < pos.k)
\* the documents of a collection made from a source record
Copies(key, rec) ==
  Cardinality({d \in 1..Len(remote[key]) : remote[key][d].data = MigratedDoc(key, rec)})
\* the runs, finished or not, that went past element j of key number c
RunsPast(c, j) ==
  Cardinality({r \in 1..Len(notice) : Passed(notice[r], c, j)})
    + (IF view.active /\ Passed(view, c, j) THEN 1 ELSE 0)

\* every collection holds, for each source record, one document per run
\* that went past it, and nothing else
MigrationLedger ==
  \A c \in 1..Len(Keys) :
    LET key == Keys[c]
        list == getList(localStore, key) IN
      /\ \A j \in 1..Len(list) : Copies(key, list[j]) = RunsPast(c, j)
      /\ \A d \in 1..Len(remote[key]) :
           \E j \in 1..Len(list) : remote[key][d].data = MigratedDoc(key, list[j])

\* the position after pos in the order clients, orders, deposits,
\* withdrawals, orderRequests: no element lies between the two
NextInOrder(lists, pos, next) ==
  /\ Keys = <<"clients", "orders", "deposits", "withdrawals", "orderRequests">>
  /\ Passed(next, pos.loop, pos.k)
  /\ \A c \in 1..Len(Keys) : \A j \in 1..Len(lists[Keys[c]]) :
       Passed(next, c, j) => (Passed(pos, c, j) \/ (c = pos.loop /\ j = pos.k))

\* C19: the migration inserts one element per step in the order clients,
\* orders, deposits, withdrawals, orderRequests; an insertion that fails
\* ends the run with every collection as it was, so the documents of the
\* earlier insertions stay and no later element is inserted; no run looks
\* at what the collections hold, so each collection holds one document per
\* source record and run that went past it, and after n runs that all
\* completed n documents per source record.
C19_Migration ==
  /\ [](MigrationLedger
        /\ ((~view.active /\ \A r \in 1..Len(notice) : notice[r] = Completed)
              => \A c \in 1..Len(Keys) :
                   \A j \in 1..Len(getList(localStore, Keys[c])) :
                     Copies(Keys[c], getList(localStore, Keys[c])[j]) = events))
  /\ [][/\ AddDocReturns
             => /\ \A key \in KeySet \ {Keys[view.loop]} : remote'[key] = remote[key]
                /\ Len(remote'[Keys[view.loop]]) = Len(remote[Keys[view.loop]]) + 1
                /\ SubSeq(remote'[Keys[view.loop]], 1, Len(remote[Keys[view.loop]]))
                     = remote[Keys[view.loop]]
                /\ NextInOrder(view.lists, view,
                               IF view'.active THEN view' ELSE Completed)
        /\ AddDocThrows => (remote' = remote /\ ~view'.active)
        /\ ~view.active => remote' = remote]_vars

\* a first run failed on its second insertion, a second run completed: the
\* first client is there twice, the last order request once
C19_Witness ==
  /\ Len(notice) = 2
  /\ notice[1].kind = "rejected"
  /\ Passed(notice[1], 1, 1)
  /\ notice[2] = Completed
  /\ Len(remote["clients"]) = 2
  /\ Len(remote["orderRequests"]) = 1


(***************************************************************************)
(* The dashboard: remote read errors, categorical filters, edits that      *)
(* overlap pushes and awaited updates, local ids.                          *)
(***************************************************************************)
\* C21: when the live subscription reports a read error, the user is shown
\* a failure notice, the in-memory list is left as it was, and the
\* subscription is not set up again.
C21_ReadErrorReported ==
  [][SnapshotError
       => /\ notice'.title = "Error"
          /\ st'.clients = st.clients
          /\ subscribed' = FALSE]_vars

\* the text a equals the text b, letter case ignored
EqualsIgnoringCase(a, b) == toLowerCase(a) = toLowerCase(b)
\* the record passes each categorical filter that is not at its sentinel
PassesCategorical(c, f) ==
  /\ f.locationFilter # AllLocations => EqualsIgnoringCase(c.location, f.locationFilter)
  /\ f.applicationFilter # AllApplications
       => EqualsIgnoringCase(c.application, f.applicationFilter)
  /\ f.agentFilter # AllAgents => EqualsIgnoringCase(c.assignedAgent, f.agentFilter)

Stale(cell) == cell.clientId # NoId /\ cell.clientId \notin IdSet(st.clients)

\* C23: a push leaves the editing cell (clientId, field and value) as it
\* was, in the state and in the rendered view, also when the list it
\* delivers has no record with that clientId; committing such a stale edit
\* (blur or Enter, the delayed auto-save, and the completion of its awaited
\* update) leaves the in-memory list as it was.
C23_PushKeepsEditingCell ==
  /\ [][Push => (st'.editingCell = st.editingCell
                 /\ view'.editingCell = view.editingCell)]_vars
  /\ [][(CommitEdit /\ Stale(view.editingCell)) => st'.clients = st.clients]_vars
  /\ [][(TimerFire /\ Stale(Head(timers).cell)) => st'.clients = st.clients]_vars
  /\ [][\A i \in 1..Len(pending) :
          ((RemoteOk(i) \/ RemoteFail(i)) /\ pending[i].kind = "update")
            => st'.clients = st.clients]_vars
\* a push has removed the record of the cell being edited, the cell is as
\* the user left it, and the commit of that edit has issued its update
C23_Witness ==
  /\ subscribed
  /\ SeedDoc.id \notin IdSet(remote)
  /\ Ids(st.clients) = Ids(remote)
  /\ st.editingCell.clientId = SeedDoc.id
  /\ st.editingCell.value # SeedDoc[st.editingCell.field]
  /\ ~st.loading
  /\ Stale(st.editingCell)
  /\ SeedDoc.id \in IdSet(view.clients)
  /\ \E i \in 1..Len(pending) :
       /\ pending[i].kind = "update"
       /\ pending[i].id = SeedDoc.id
       /\ pending[i].value = st.editingCell.value

\* an awaited updateDoc for the cell
UpdateOf(call, cell) ==
  call.kind = "update" /\ call.id = cell.clientId /\ call.field = cell.field

\* C24: while the update of a committed edit is awaited (the cell is still
\* the editing cell, as it is reset only after the await), a further Enter
\* or blur or the delayed auto-save issues no second update call for that
\* cell.
C24_OneUpdatePerEdit ==
  [][\A i \in 1..Len(pending) :
       (/\ CommitEdit \/ TimerFire
        /\ UpdateOf(pending[i], st.editingCell)
        /\ Len(pending') > Len(pending))
         => ~UpdateOf(pending'[Len(pending')], st.editingCell)]_vars

\* C25: when the awaited update of a committed edit completes (it returns
\* or throws) while the editing cell is another cell, one the user started
\* editing in the meantime, that editing cell is left as it is.
C25_CompletionKeepsNewerEdit ==
  [][\A i \in 1..Len(pending) :
       (/\ RemoteOk(i) \/ RemoteFail(i)
        /\ pending[i].kind = "update"
        /\ st.editingCell.clientId # NoId
        /\ ~UpdateOf(pending[i], st.editingCell))
         => st'.editingCell = st.editingCell]_vars

\* the ids of the list are pairwise distinct
DistinctIds(list) ==
  \A i, j \in 1..Len(list) : i # j => list[i].id # list[j].id

\* C26: with no session, a create leaves the ids of the in-memory list
\* pairwise distinct when they were so before it, at whatever clock reading
\* it happens, the reading of the previous create included.
C26_LocalIdsDistinct ==
  [][(processClientInfo /\ user = NoUser /\ view.user = NoUser
        /\ DistinctIds(st.clients))
       => DistinctIds(st'.clients)]_vars

====
